---- MODULE Spec2Model ----
(***************************************************************************)
(* State-machine model of the decimating FIR lowpass block LowPass         *)
(* (src/src/dsp/lowpass.cxx).                                              *)
(*                                                                         *)
(* Floating point values are kept symbolic: a spectrum bin is the pair     *)
(* <<re, im>> of the literals the code stores (1.0 -> 1, 0.0 -> 0), a      *)
(* transform output bin is "bin k of the inverse DFT of that spectrum", a  *)
(* window value is "Hamming value n of a length-L window scaled by 1/L", a *)
(* coefficient is the product of the two, and an output sample is the list *)
(* of its 64 products weight * sample in the order the code adds them.     *)
(* Unsigned 32-bit integers are naturals; the only product that can exceed *)
(* 32 bits (_firLength * _passband) is reduced modulo 2^32 by Mul32.       *)
(***************************************************************************)
EXTENDS Integers, Sequences, FiniteSets, TLC

\* ---------------------------------------------------------------- constants
FIR_LENGTH == 64
DEFAULT_SAMPLE_RATE == 48000

\* ------------------------------------------------------------------- bounds
MaxSamples == 4
MaxBlock == 3
RaceSamples == 2
MaxStreamFrames == 68

\* ------------------------------------------------------------------- inputs
InRates == {48000, 32000}
ChannelCounts == {1, 2}
PassbandArgs == {0, 6000, 24000, 48000, 67108864}
DecimationArgs == {0, 2, 3}
OutputRateArgs == {0, 24000}
SampleVals == {1, 2}
RacePassbands == {24000}
Blocks == UNION {[1..n -> SampleVals] : n \in 0..MaxBlock}
StreamPassbands == {6000}
StreamDecimations == {2, 3}
StreamLens == {FIR_LENGTH \div 2 + 1, FIR_LENGTH \div 2 + 2}
StreamBlocks == {[k \in 1..n |-> k] : n \in StreamLens}

VARIABLES
  \* the host block: isRunning(), inputSampleRate(), inputChannels().  The
  \* pipeline gives a positive rate and channel count, starts a stopped block,
  \* stops and feeds a running one.
  running, inRate, inChannels,
  \* configuration fields of LowPass and of its base block
  _passband, _decimation, _reqOutputRate, _outputSampleRate, _outputChannels,
  \* streaming state
  headpos, decimationCount,
  \* bufs: state of the fftwf_malloc'ed spec / impulse buffers and the plan
  \* ("null", "live", "freed"); the arrays are functions on 0 .. length - 1
  bufs, spec, impulse, window, coeff, fir,
  \* the frames the operation just completed wrote to outBuffer (none unless
  \* it was process())
  out,
  \* bookkeeping: frames consumed and written since start, the operation just
  \* completed, the last rate setter call that took effect, the input frames
  \* consumed since start, whether a start has failed since the last
  \* successful one
  totalIn, totalOut, last, lastSetter, xs, failedBefore,
  \* positions of the signal thread (ppc, pin, ptap, pacc, frameDesigns) and
  \* of the control thread (cpc, cn) inside process() and recalculate()
  ppc, pin, ptap, pacc, cpc, cn, frameDesigns

hostVars == <<running, inRate, inChannels>>
cfgVars == <<_passband, _decimation, _reqOutputRate, _outputSampleRate, _outputChannels>>
streamVars == <<headpos, decimationCount, fir>>
designVars == <<bufs, spec, impulse, window, coeff>>
ghostVars == <<totalIn, totalOut, last, lastSetter, xs, failedBefore>>
threadVars == <<ppc, pin, ptap, pacc, cpc, cn, frameDesigns>>
vars == <<hostVars, cfgVars, streamVars, designVars, out, ghostVars, threadVars>>

Taps == 0..(FIR_LENGTH - 1)
Empty == [n \in {} |-> 0]
Idle == ppc = "idle" /\ cpc = "idle"

\* record of the last completed operation: its name, integer argument and
\* result; for process() the frames consumed, decimationCount at entry and the
\* input block; notes about what it follows ("same": setPassband with the
\* passband unchanged on a running block; "restart", "stale", "afterFail": a
\* successful start after a stop, with headpos and decimationCount left
\* nonzero by the run before, after a failed start)
Op(name, arg, ok, frames, dc0) ==
  [op |-> name, arg |-> arg, ok |-> ok, frames |-> frames, dc0 |-> dc0,
   notes |-> {}, input |-> <<>>]

\* ------------------------------------------------------- integer arithmetic
\* x & (_firLength - 1) for a power-of-two _firLength, on unsigned operands
\* (idx - 1 with idx = 0 wraps to 2^32 - 1, whose low bits are all ones).
AndMask(x) == x % FIR_LENGTH

\* a * b in unsigned 32-bit arithmetic, for a a power of two <= 65536:
\* a * b mod 2^32 = a * (b mod (2^32 / a)).
Mul32(a, b) == a * (b % ((65536 \div a) * 65536))

\* --------------------------------------------------------- filter designer
\* variant: the cutoff bin without the final halving
CutoffBin_noHalving(passband, rate) == Mul32(FIR_LENGTH, passband) \div rate

\* maxbin of recalculate(): _firLength * _passband / inputSampleRate() / 2
CutoffBin(passband, rate) == (Mul32(FIR_LENGTH, passband) \div rate) \div 2

BinValue(n, maxbin) == IF n < maxbin THEN <<1, 0>> ELSE <<0, 0>>

\* variant: the mirrored bin is tested with its own index
RECURSIVE MaskLoop_mirrorTestsOwnIndex(_, _, _)
MaskLoop_mirrorTestsOwnIndex(s, n, maxbin) ==
  IF n >= FIR_LENGTH \div 2 + 1 THEN s
  ELSE MaskLoop_mirrorTestsOwnIndex(
         [s EXCEPT ![AndMask(FIR_LENGTH - n)] = BinValue(AndMask(FIR_LENGTH - n), maxbin),
                   ![n] = BinValue(n, maxbin)],
         n + 1, maxbin)

\* the mask loop of recalculate(), from bin n on, writing into buffer s
RECURSIVE MaskLoop(_, _, _)
MaskLoop(s, n, maxbin) ==
  IF n >= FIR_LENGTH \div 2 + 1 THEN s
  ELSE MaskLoop([s EXCEPT ![n] = BinValue(n, maxbin),
                          ![AndMask(FIR_LENGTH - n)] = BinValue(n, maxbin)],
                n + 1, maxbin)

\* A spectrum written down losslessly and compactly: its first bin and the
\* places where the value changes.
SpectrumOf(s) == <<s[0], {<<n, s[n]>> : n \in {m \in Taps \ {0} : s[m] # s[m - 1]}}>>

\* fftwf_execute(p): p is the backward length-_firLength plan from spec to
\* impulse; output bin k is bin k of the inverse DFT of the whole spectrum.
Execute(s) == LET sp == SpectrumOf(s) IN [k \in Taps |-> [bin |-> k, of |-> sp]]

\* window[n] of init(): Hamming value n over _firLength - 1, divided by _firLength
Hamming(n) == [n |-> n, span |-> FIR_LENGTH - 1, scale |-> FIR_LENGTH]

\* variant: no re-centering, coefficient n read from bin n
CentreBin_noShift(n) == n

\* bin read for coefficient n
CentreBin(n) == AndMask(n + FIR_LENGTH \div 2)

\* variant: coeff[n] *= ... in place of coeff[n] = ...
Coefficient_accumulates(imp, win, n) ==
  IF n \in DOMAIN coeff
  THEN [re |-> imp[CentreBin(n)], win |-> win[n], times |-> coeff[n].re]
  ELSE [re |-> imp[CentreBin(n)], win |-> win[n]]

\* coeff[n] = impulse[bin][0] * window[n]
Coefficient(imp, win, n) == [re |-> imp[CentreBin(n)], win |-> win[n]]

Coefficients(imp, win) == [n \in Taps |-> Coefficient(imp, win, n)]

\* recalculate(): the three buffers it leaves, given the spectrum buffer's
\* content before the call
Redesign(s, win, passband, rate) ==
  LET s1 == MaskLoop(s, 0, CutoffBin(passband, rate))
      i1 == Execute(s1)
  IN [spec |-> s1, impulse |-> i1, coeff |-> Coefficients(i1, win)]

\* ------------------------------------------------------ streaming convolver
\* variant: inframes = (insize - 1) / channels
FrameCount_dropsLast(inBuffer, channels) == (Len(inBuffer) - 1) \div channels

FrameCount(inBuffer, channels) == Len(inBuffer) \div channels

\* the samples *in++ reads for frame f of the block, by channel
FrameOf(inBuffer, f, channels) ==
  [c \in 0..(channels - 1) |-> inBuffer[f * channels + c + 1]]

\* for (c ...) fir[c][headpos] = *in++, for frame f of the block
StoreFrame(firv, hp, inBuffer, f, channels) ==
  [c \in DOMAIN firv |->
     IF c < channels THEN [firv[c] EXCEPT ![hp] = inBuffer[f * channels + c + 1]]
     ELSE firv[c]]

\* variant: the index walks forward from headpos
Term_walksForward(weight, firv, c, hp, tap) == <<weight, firv[c][AndMask(hp + tap)]>>

\* one addend of out[c] += weight * fir[c][idx]; idx has been decremented
\* tap times from headpos under the mask
Term(weight, firv, c, hp, tap) == <<weight, firv[c][AndMask(hp - tap)]>>

\* variant: the counter compared before it is incremented
Emits_postIncrement(dc, decimation) == dc = decimation

\* ++decimationCount == _decimation
Emits(dc, decimation) == dc + 1 = decimation

OutputFrame(cf, firv, hp, channels) ==
  [c \in 0..(channels - 1) |-> [tap \in Taps |-> Term(cf[tap], firv, c, hp, tap)]]

\* variant: headpos advances inside the emitting branch only
RECURSIVE ProcessLoop_advanceOnEmit(_, _, _, _, _, _, _, _, _, _)
ProcessLoop_advanceOnEmit(inBuffer, f, channels, decimation, cf, firv, hp, dc, outv, xv) ==
  IF f >= FrameCount(inBuffer, channels)
  THEN [fir |-> firv, headpos |-> hp, decimationCount |-> dc, out |-> outv,
        xs |-> xv]
  ELSE LET fir1 == StoreFrame(firv, hp, inBuffer, f, channels)
           emit == Emits(dc, decimation)
       IN ProcessLoop_advanceOnEmit(inBuffer, f + 1, channels, decimation, cf, fir1,
                      IF emit THEN AndMask(hp + 1) ELSE hp,
                      IF emit THEN 0 ELSE dc + 1,
                      IF emit THEN Append(outv, OutputFrame(cf, fir1, hp, channels))
                      ELSE outv,
                      Append(xv, FrameOf(inBuffer, f, channels)))

\* the while (inframes--) loop from frame f on; xv collects the frames read
RECURSIVE ProcessLoop(_, _, _, _, _, _, _, _, _, _)
ProcessLoop(inBuffer, f, channels, decimation, cf, firv, hp, dc, outv, xv) ==
  IF f >= FrameCount(inBuffer, channels)
  THEN [fir |-> firv, headpos |-> hp, decimationCount |-> dc, out |-> outv,
        xs |-> xv]
  ELSE LET fir1 == StoreFrame(firv, hp, inBuffer, f, channels)
           emit == Emits(dc, decimation)
       IN ProcessLoop(inBuffer, f + 1, channels, decimation, cf, fir1,
                      AndMask(hp + 1),
                      IF emit THEN 0 ELSE dc + 1,
                      IF emit THEN Append(outv, OutputFrame(cf, fir1, hp, channels))
                      ELSE outv,
                      Append(xv, FrameOf(inBuffer, f, channels)))

\* ------------------------------------------------------------ initial state
\* LowPass::LowPass; the host block starts stopped, with the input format the
\* pipeline gives it.
Init ==
  /\ running = FALSE
  /\ inRate \in InRates
  /\ inChannels \in ChannelCounts
  /\ _passband = 0
  /\ _decimation = 0
  /\ _reqOutputRate = DEFAULT_SAMPLE_RATE
  /\ _outputSampleRate = 0
  /\ _outputChannels = 0
  /\ headpos = 0
  /\ decimationCount = 0
  /\ bufs = "null"
  /\ spec = Empty
  /\ impulse = Empty
  /\ window = Empty
  /\ coeff = Empty
  /\ fir = Empty
  /\ out = <<>>
  /\ totalIn = 0
  /\ totalOut = 0
  /\ last = Op("construct", 0, TRUE, 0, 0)
  /\ lastSetter = <<"none", 0>>
  /\ xs = <<>>
  /\ failedBefore = FALSE
  /\ ppc = "idle"
  /\ pin = <<>>
  /\ ptap = 0
  /\ pacc = Empty
  /\ cpc = "idle"
  /\ cn = 0
  /\ frameDesigns = {}

\* ------------------------------------------------------------------ setters
\* variant: the passband is stored and no redesign follows
setPassband_storeOnly(hz) ==
  /\ Idle
  /\ UNCHANGED failedBefore
  /\ _passband' = hz
  /\ last' = [Op("setPassband", hz, TRUE, 0, 0) EXCEPT
               !.notes = IF running /\ hz = _passband THEN {"same"} ELSE {}]
  /\ out' = <<>>
  /\ UNCHANGED <<hostVars, _decimation, _reqOutputRate, _outputSampleRate,
                 _outputChannels, streamVars, designVars, totalIn, xs,
                 totalOut, lastSetter, threadVars>>

\* variant: recalculate() called whether or not the block runs; on a stopped
\* block it writes the memory the buffer pointers hold
setPassband_alwaysRedesigns(hz) ==
  /\ Idle
  /\ UNCHANGED failedBefore
  /\ _passband' = hz
  /\ LET s0 == IF running THEN spec ELSE [n \in Taps |-> <<0, 0>>]
         win == IF running THEN window ELSE [n \in Taps |-> Hamming(n)]
         d == Redesign(s0, win, hz, inRate)
     IN /\ spec' = d.spec
        /\ impulse' = d.impulse
        /\ coeff' = d.coeff
  /\ last' = [Op("setPassband", hz, TRUE, 0, 0) EXCEPT
               !.notes = IF running /\ hz = _passband THEN {"same"} ELSE {}]
  /\ out' = <<>>
  /\ UNCHANGED <<hostVars, _decimation, _reqOutputRate, _outputSampleRate,
                 _outputChannels, streamVars, bufs, window, totalIn, xs,
                 totalOut, lastSetter, threadVars>>

setPassband(hz) ==
  /\ Idle
  /\ UNCHANGED failedBefore
  /\ _passband' = hz
  /\ IF running
     THEN LET d == Redesign(spec, window, hz, inRate)
          IN /\ spec' = d.spec
             /\ impulse' = d.impulse
             /\ coeff' = d.coeff
     ELSE UNCHANGED <<spec, impulse, coeff>>
  /\ last' = [Op("setPassband", hz, TRUE, 0, 0) EXCEPT
               !.notes = IF running /\ hz = _passband THEN {"same"} ELSE {}]
  /\ out' = <<>>
  /\ UNCHANGED <<hostVars, _decimation, _reqOutputRate, _outputSampleRate,
                 _outputChannels, streamVars, bufs, window, totalIn, xs,
                 totalOut, lastSetter, threadVars>>

\* variant: no isRunning() guard
setDecimation_unguarded(n) ==
  /\ Idle
  /\ UNCHANGED failedBefore
  /\ _decimation' = n
  /\ _reqOutputRate' = 0
  /\ lastSetter' = IF running THEN lastSetter ELSE <<"decimation", n>>
  /\ last' = Op("setDecimation", n, TRUE, 0, 0)
  /\ out' = <<>>
  /\ UNCHANGED <<hostVars, _passband, _outputSampleRate, _outputChannels,
                 streamVars, designVars, totalIn, xs, totalOut, threadVars>>

\* variant: the requested output rate is not cleared
setDecimation_keepsRate(n) ==
  /\ Idle
  /\ UNCHANGED failedBefore
  /\ IF running
     THEN UNCHANGED <<_decimation, lastSetter>>
     ELSE /\ _decimation' = n
          /\ lastSetter' = <<"decimation", n>>
  /\ last' = Op("setDecimation", n, TRUE, 0, 0)
  /\ out' = <<>>
  /\ UNCHANGED <<hostVars, _passband, _reqOutputRate, _outputSampleRate,
                 _outputChannels, streamVars, designVars, totalIn, xs, totalOut,
                 threadVars>>

setDecimation(n) ==
  /\ Idle
  /\ UNCHANGED failedBefore
  /\ IF running
     THEN UNCHANGED <<_decimation, _reqOutputRate, lastSetter>>
     ELSE /\ _decimation' = n
          /\ _reqOutputRate' = 0
          /\ lastSetter' = <<"decimation", n>>
  /\ last' = Op("setDecimation", n, TRUE, 0, 0)
  /\ out' = <<>>
  /\ UNCHANGED <<hostVars, _passband, _outputSampleRate, _outputChannels,
                 streamVars, designVars, totalIn, xs, totalOut, threadVars>>

setOutputSampleRate(hz) ==
  /\ Idle
  /\ UNCHANGED failedBefore
  /\ IF running
     THEN UNCHANGED <<_decimation, _reqOutputRate, lastSetter>>
     ELSE /\ _reqOutputRate' = hz
          /\ _decimation' = 0
          /\ lastSetter' = <<"rate", hz>>
  /\ last' = Op("setOutputSampleRate", hz, TRUE, 0, 0)
  /\ out' = <<>>
  /\ UNCHANGED <<hostVars, _passband, _outputSampleRate, _outputChannels,
                 streamVars, designVars, totalIn, xs, totalOut, threadVars>>

\* ---------------------------------------------------------------- lifecycle
\* variant: only a product above the input rate is an error
IntegerRatio_onlyAbove(outRate, dec, rate) == outRate * dec <= rate

\* variant: the check left out
IntegerRatio_unchecked(outRate, dec, rate) == TRUE

\* init(): _outputSampleRate * _decimation != inputSampleRate() is the error
IntegerRatio(outRate, dec, rate) == outRate * dec = rate

\* variant: with neither value given, a decimation of 1 is assumed
Derive_defaultsToOne(req, dec, rate, oldOut) ==
  IF req > 0 THEN [specified |-> TRUE, outRate |-> req, dec |-> rate \div req]
  ELSE IF dec > 0 THEN [specified |-> TRUE, outRate |-> rate \div dec, dec |-> dec]
  ELSE [specified |-> TRUE, outRate |-> rate, dec |-> 1]

\* variant: the chain tests _decimation first, so a decimation computed by an
\* earlier init() is taken for the caller's
Derive_decimationFirst(req, dec, rate, oldOut) ==
  IF dec > 0 THEN [specified |-> TRUE, outRate |-> rate \div dec, dec |-> dec]
  ELSE IF req > 0 THEN [specified |-> TRUE, outRate |-> req, dec |-> rate \div req]
  ELSE [specified |-> FALSE, outRate |-> oldOut, dec |-> dec]

\* init(), the first if/else chain: whether a decimation or an output rate is
\* specified, and what it leaves in (_outputSampleRate, _decimation)
Derive(req, dec, rate, oldOut) ==
  IF req > 0 THEN [specified |-> TRUE, outRate |-> req, dec |-> rate \div req]
  ELSE IF dec > 0 THEN [specified |-> TRUE, outRate |-> rate \div dec, dec |-> dec]
  ELSE [specified |-> FALSE, outRate |-> oldOut, dec |-> dec]

\* variant: init() also insists on a passband
InitSucceeds_needsPassband(req, dec, rate) ==
  /\ _passband > 0
  /\ LET d == Derive(req, dec, rate, 0)
     IN d.specified /\ IntegerRatio(d.outRate, d.dec, rate)

\* does init() return true
InitSucceeds(req, dec, rate) ==
  LET d == Derive(req, dec, rate, 0)
  IN d.specified /\ IntegerRatio(d.outRate, d.dec, rate)

\* The host's start operation: init(), and the block runs if it returned true.
Start ==
  /\ Idle
  /\ ~running
  /\ LET d == Derive(_reqOutputRate, _decimation, inRate, _outputSampleRate)
         win == [n \in Taps |-> Hamming(n)]
         rd == Redesign([n \in Taps |-> <<"uninit", "uninit">>], win, _passband, inRate)
     IN /\ _outputSampleRate' = d.outRate
        /\ _decimation' = d.dec
        /\ _outputChannels' = IF d.specified THEN inChannels ELSE _outputChannels
        /\ IF InitSucceeds(_reqOutputRate, _decimation, inRate)
           THEN /\ running' = TRUE
                /\ decimationCount' = 0
                /\ bufs' = "live"
                /\ window' = win
                /\ fir' = [c \in 0..(inChannels - 1) |->
                             [i \in Taps |-> IF c \in DOMAIN fir /\ i \in DOMAIN fir[c]
                                             THEN fir[c][i] ELSE 0]]
                /\ headpos' = 0
                /\ spec' = rd.spec
                /\ impulse' = rd.impulse
                /\ coeff' = rd.coeff
                /\ totalIn' = 0
                /\ totalOut' = 0
                /\ xs' = <<>>
                /\ out' = <<>>
                /\ failedBefore' = FALSE
                /\ last' = [Op("start", 0, TRUE, 0, 0) EXCEPT
                             !.notes = (IF bufs = "freed" THEN {"restart"} ELSE {})
                                       \cup (IF headpos # 0 /\ decimationCount # 0
                                             THEN {"stale"} ELSE {})
                                       \cup (IF failedBefore THEN {"afterFail"} ELSE {})]
           ELSE /\ last' = Op("start", 0, FALSE, 0, 0)
                /\ out' = <<>>
                /\ failedBefore' = TRUE
                /\ UNCHANGED <<running, decimationCount, bufs, window, fir, headpos,
                               spec, impulse, coeff, totalIn, xs, totalOut>>
  /\ UNCHANGED <<inRate, inChannels, _passband, _reqOutputRate, lastSetter,
                 threadVars>>

\* variant: deinit() leaves the history vectors as they are
Stop_keepsHistory ==
  /\ Idle
  /\ UNCHANGED failedBefore
  /\ running
  /\ running' = FALSE
  /\ bufs' = "freed"
  /\ spec' = Empty
  /\ impulse' = Empty
  /\ window' = Empty
  /\ coeff' = Empty
  /\ out' = <<>>
  /\ last' = Op("stop", 0, TRUE, 0, 0)
  /\ totalIn' = 0
  /\ totalOut' = 0
  /\ xs' = <<>>
  /\ UNCHANGED <<inRate, inChannels, cfgVars, streamVars, lastSetter, threadVars>>

\* The host's stop operation: the block stops running and deinit() releases
\* the transform buffers and swaps every vector with an empty one.
Stop ==
  /\ Idle
  /\ UNCHANGED failedBefore
  /\ running
  /\ running' = FALSE
  /\ bufs' = "freed"
  /\ spec' = Empty
  /\ impulse' = Empty
  /\ window' = Empty
  /\ coeff' = Empty
  /\ fir' = [c \in DOMAIN fir |-> Empty]
  /\ out' = <<>>
  /\ last' = Op("stop", 0, TRUE, 0, 0)
  /\ totalIn' = 0
  /\ totalOut' = 0
  /\ xs' = <<>>
  /\ UNCHANGED <<inRate, inChannels, cfgVars, headpos, decimationCount,
                 lastSetter, threadVars>>

\* The pipeline changes the input format of a stopped block.
SetInput(rate, channels) ==
  /\ Idle
  /\ UNCHANGED failedBefore
  /\ ~running
  /\ <<rate, channels>> # <<inRate, inChannels>>
  /\ inRate' = rate
  /\ inChannels' = channels
  /\ last' = Op("setInput", 0, TRUE, 0, 0)
  /\ out' = <<>>
  /\ UNCHANGED <<running, cfgVars, streamVars, designVars, totalIn, xs, totalOut,
                 lastSetter, threadVars>>

\* ------------------------------------------------------------------ process
\* one call of process() on a block of interleaved samples
processBlock(inBuffer) ==
  /\ Idle
  /\ UNCHANGED failedBefore
  /\ running
  /\ LET r == ProcessLoop(inBuffer, 0, inChannels, _decimation, coeff, fir,
                          headpos, decimationCount, <<>>, xs)
     IN /\ fir' = r.fir
        /\ headpos' = r.headpos
        /\ decimationCount' = r.decimationCount
        /\ out' = r.out
        /\ totalIn' = totalIn + FrameCount(inBuffer, inChannels)
        /\ totalOut' = totalOut + Len(r.out)
        /\ xs' = r.xs
        /\ last' = [Op("process", Len(inBuffer), TRUE,
                        FrameCount(inBuffer, inChannels), decimationCount)
                     EXCEPT !.input = inBuffer]
  /\ UNCHANGED <<hostVars, cfgVars, designVars, lastSetter, threadVars>>

\* process() on a short block, within the sample budget of a run
process(inBuffer) ==
  /\ totalIn * inChannels + Len(inBuffer) <= MaxSamples
  /\ processBlock(inBuffer)

Next ==
  \/ \E hz \in PassbandArgs : setPassband(hz)
  \/ \E n \in DecimationArgs : setDecimation(n)
  \/ \E hz \in OutputRateArgs : setOutputSampleRate(hz)
  \/ Start
  \/ Stop
  \/ \E r \in InRates, c \in ChannelCounts : SetInput(r, c)
  \/ \E b \in Blocks : process(b)

Spec == Init /\ [][Next]_vars

\* ------------------------------------------------- long streams of samples
\* The same component fed blocks of more than half the history buffer, so that
\* headpos wraps around the ring.  The samples of a block are 1, 2, 3, ...
\* so that every position of a block is told apart.

\* process() on a block of a stream, within the frame budget of a run
Feed(inBuffer) ==
  /\ totalIn + FrameCount(inBuffer, inChannels) <= MaxStreamFrames
  /\ processBlock(inBuffer)

NextStream ==
  \/ \E hz \in StreamPassbands : setPassband(hz)
  \/ \E n \in StreamDecimations : setDecimation(n)
  \/ Start
  \/ Stop
  \/ \E b \in StreamBlocks : Feed(b)

SpecStream == Init /\ [][NextStream]_vars

\* ------------------------------------------- two threads, statement by statement
\* The same component when the host calls process() on the signal thread and
\* setPassband() on a control thread with no lock between them (the source
\* takes none).  process() advances one frame store or one tap read at a time,
\* recalculate() one coeff[n] store at a time; a tap read returns whatever
\* coeff[tap] holds at that moment.  The spectrum and transform buffers are
\* touched by the control thread alone and are written in one step.  The sum
\* of a frame is recorded as the samples it covers and the set of designs
\* (spectra) whose coefficients entered it.

\* the design a coefficient value was computed from
DesignOf(weight) == weight.re.of

\* process() entry: in, out, channels, inframes
ProcessEnter(inBuffer) ==
  /\ ppc = "idle"
  /\ UNCHANGED failedBefore
  /\ running
  /\ Len(inBuffer) = inChannels
  /\ totalIn * inChannels + Len(inBuffer) <= RaceSamples
  /\ ppc' = "frame"
  /\ pin' = inBuffer
  /\ out' = <<>>
  /\ last' = Op("processing", 0, TRUE, FrameCount(inBuffer, inChannels), decimationCount)
  /\ UNCHANGED <<hostVars, cfgVars, streamVars, designVars, totalIn, xs, totalOut,
                 lastSetter, ptap, pacc, cpc, cn, frameDesigns>>

\* one turn of while (inframes--) up to the tap loop, or the return
ProcessFrame ==
  /\ ppc = "frame"
  /\ UNCHANGED failedBefore
  /\ IF FrameCount(pin, inChannels) = 0
     THEN /\ ppc' = "idle"
          /\ pin' = <<>>
          /\ last' = [last EXCEPT !.op = "process"]
          /\ UNCHANGED <<streamVars, ptap, pacc, frameDesigns, totalIn, xs>>
     ELSE /\ fir' = StoreFrame(fir, headpos, pin, 0, inChannels)
          /\ totalIn' = totalIn + 1
          /\ xs' = Append(xs, FrameOf(pin, 0, inChannels))
          /\ IF Emits(decimationCount, _decimation)
             THEN /\ ppc' = "taps"
                  /\ ptap' = 0
                  /\ pacc' = [c \in 0..(inChannels - 1) |-> Empty]
                  /\ frameDesigns' = {}
                  /\ decimationCount' = decimationCount + 1
                  /\ UNCHANGED <<headpos, pin>>
             ELSE /\ decimationCount' = decimationCount + 1
                  /\ headpos' = AndMask(headpos + 1)
                  /\ pin' = SubSeq(pin, inChannels + 1, Len(pin))
                  /\ UNCHANGED <<ppc, ptap, pacc, frameDesigns>>
          /\ UNCHANGED last
  /\ UNCHANGED <<hostVars, cfgVars, designVars, out, totalOut, lastSetter, cpc, cn>>

\* one turn of the tap loop, or the end of the emitting branch
ProcessTap ==
  /\ ppc = "taps"
  /\ UNCHANGED failedBefore
  /\ IF ptap < FIR_LENGTH
     THEN /\ ptap \in DOMAIN coeff
          /\ frameDesigns' = frameDesigns \cup {DesignOf(coeff[ptap])}
          /\ pacc' = [c \in DOMAIN pacc |->
                        [t \in 0..ptap |-> IF t = ptap
                                           THEN fir[c][AndMask(headpos - ptap)]
                                           ELSE pacc[c][t]]]
          /\ ptap' = ptap + 1
          /\ UNCHANGED <<ppc, pin, out, totalOut, headpos, decimationCount>>
     ELSE /\ out' = Append(out, [designs |-> frameDesigns, x |-> pacc])
          /\ totalOut' = totalOut + 1
          /\ decimationCount' = 0
          /\ headpos' = AndMask(headpos + 1)
          /\ pin' = SubSeq(pin, inChannels + 1, Len(pin))
          /\ ppc' = "frame"
          /\ UNCHANGED <<ptap, pacc, frameDesigns>>
  /\ UNCHANGED <<hostVars, cfgVars, fir, designVars, totalIn, xs, last, lastSetter,
                 cpc, cn>>

\* setPassband() on the control thread, up to coeff.resize()
PassbandEnter(hz) ==
  /\ cpc = "idle"
  /\ running
  /\ hz # _passband
  /\ _passband' = hz
  /\ spec' = MaskLoop(spec, 0, CutoffBin(hz, inRate))
  /\ impulse' = Execute(spec')
  /\ cpc' = "coeff"
  /\ cn' = 0
  /\ UNCHANGED <<hostVars, _decimation, _reqOutputRate, _outputSampleRate,
                 _outputChannels, streamVars, bufs, window, coeff, out, ghostVars,
                 ppc, pin, ptap, pacc, frameDesigns>>

\* one turn of the coefficient loop of recalculate(), or its return
PassbandStore ==
  /\ cpc = "coeff"
  /\ IF cn < FIR_LENGTH
     THEN /\ coeff' = [coeff EXCEPT ![cn] = Coefficient(impulse, window, cn)]
          /\ cn' = cn + 1
          /\ UNCHANGED cpc
     ELSE /\ cpc' = "idle"
          /\ UNCHANGED <<coeff, cn>>
  /\ UNCHANGED <<hostVars, cfgVars, streamVars, bufs, spec, impulse, window, out,
                 ghostVars, ppc, pin, ptap, pacc, frameDesigns>>

NextThreads ==
  \/ Start
  \/ \E b \in Blocks : ProcessEnter(b)
  \/ ProcessFrame
  \/ ProcessTap
  \/ \E hz \in RacePassbands : PassbandEnter(hz)
  \/ PassbandStore

SpecThreads == Init /\ [][NextThreads]_vars

\* ================================================================== claims
\* the low FIR_LENGTH / 2 + 1 bins, the ones the mask loop visits
HalfBins == 0..(FIR_LENGTH \div 2)

\* whether the request the last start() saw names an output rate that divides
\* the input rate (start() leaves _reqOutputRate alone, and _decimation too
\* when no output rate is requested)
RequestDivides ==
  \/ _reqOutputRate > 0 /\ inRate % _reqOutputRate = 0
  \/ _reqOutputRate = 0 /\ _decimation > 0 /\ inRate % _decimation = 0

\* C1: while running with decimation D, after T input frames in total exactly
\* floor(T / D) output frames have been written, however the frames were
\* split over process() calls; a call entered with decimationCount = 0 that
\* receives F frames writes floor(F / D) frames; every frame written has one
\* sample per channel.
C1_DecimationAcrossCalls ==
  running =>
    /\ totalOut = totalIn \div _decimation
    /\ \A k \in 0..MaxSamples : totalIn = k * _decimation => totalOut = k
    /\ last.op = "process" =>
         /\ last.dc0 = 0 => Len(out) = last.frames \div _decimation
         /\ \A j \in DOMAIN out : DOMAIN out[j] = 0..(inChannels - 1)

\* four frames at decimation 2 gave two output frames, the last call having
\* brought a single frame into a half-counted pair
C1_Witness ==
  /\ running /\ _decimation = 2 /\ totalIn = 4 /\ totalOut = 2
  /\ last.op = "process" /\ last.frames = 1 /\ last.dc0 = 1 /\ Len(out) = 1

\* C2: whenever the block runs (start returned success),
\* outputSampleRate * decimationFactor = inputSampleRate exactly, both factors
\* positive.
C2_RateProduct ==
  running =>
    /\ _outputSampleRate * _decimation = inRate
    /\ _outputSampleRate > 0
    /\ _decimation > 0

\* input 48000 with decimation 2 runs at output rate 24000
C2_Witness ==
  /\ running /\ inRate = 48000 /\ lastSetter = <<"decimation", 2>>
  /\ _decimation = 2 /\ _outputSampleRate = 24000 /\ last.op = "start"

\* C3 as stated: a component on which neither setter was ever called does not
\* become Running.
C3_FreshComponentNeverRuns == lastSetter = <<"none", 0>> => ~running

\* C3 amended: a start that finds both _decimation and _reqOutputRate zero
\* (the last effective setter call had argument 0, which clears both) fails,
\* the component does not run, and both values are still zero.
C3_NeitherSetFails ==
  (last.op = "start" /\ lastSetter[1] # "none" /\ lastSetter[2] = 0) =>
    (~last.ok /\ ~running /\ _reqOutputRate = 0 /\ _decimation = 0)

\* start after setOutputSampleRate(0) has cleared both values
C3_Witness ==
  /\ last.op = "start" /\ ~last.ok /\ ~running
  /\ _reqOutputRate = 0 /\ _decimation = 0 /\ lastSetter = <<"rate", 0>>

\* C4: a start whose requested output rate R does not divide the input rate
\* (R above the input rate included), or whose requested decimation n does
\* not divide it, fails and the component does not run.
C4_NonIntegerRatioFails ==
  (/\ last.op = "start"
   /\ \/ _reqOutputRate > 0 /\ inRate % _reqOutputRate # 0
      \/ _reqOutputRate = 0 /\ _decimation > 0 /\ inRate % _decimation # 0)
  => (~last.ok /\ ~running)

\* 32000 in, 24000 requested: ratio 4/3
C4_Witness ==
  /\ last.op = "start" /\ ~last.ok /\ ~running
  /\ inRate = 32000 /\ _reqOutputRate = 24000

\* C5 as stated: with setPassband() on one thread and process() on another,
\* every output frame is summed from coefficients of a single design.
C5_FramesUseOneDesign ==
  \A j \in DOMAIN out : Cardinality(out[j].designs) = 1

\* C6: a setPassband() call on a running component returns with the design
\* spectrum and every coefficient computed for the new passband, and leaves
\* the history buffers, headpos and decimationCount as they were.
C6_PassbandRedesignKeepsHistory ==
  [][(running /\ last'.op = "setPassband") =>
       /\ _passband' = last'.arg
       /\ \A n \in HalfBins :
            spec'[n] = (IF 2 * (n + 1) * inRate
                              <= FIR_LENGTH * (last'.arg % ((65536 \div FIR_LENGTH) * 65536))
                        THEN <<1, 0>> ELSE <<0, 0>>)
       /\ LET sp == SpectrumOf(spec')
          IN \A n \in Taps : coeff'[n].re.of = sp
       /\ fir' = fir
       /\ headpos' = headpos
       /\ decimationCount' = decimationCount
       /\ running']_vars

\* a redesign from cutoff bin 0 to cutoff bin 4 in the middle of a decimation
\* period, after samples went into the history
C6_Witness ==
  /\ running /\ last.op = "setPassband" /\ last.arg = 6000 /\ inRate = 48000
  /\ spec[3] = <<1, 0>> /\ spec[4] = <<0, 0>>
  /\ decimationCount = 1 /\ headpos = 1 /\ fir[0][0] = 2

\* C7: on a running component setDecimation(n) and setOutputSampleRate(hz)
\* change nothing, whatever the argument.
C7_RateSettersNoOpWhileRunning ==
  [][(running /\ last'.op \in {"setDecimation", "setOutputSampleRate"}) =>
       /\ UNCHANGED <<_decimation, _outputSampleRate, _reqOutputRate>>
       /\ UNCHANGED <<decimationCount, headpos, fir, coeff, spec, _passband>>
       /\ UNCHANGED <<running, totalIn, totalOut>>]_vars

\* setDecimation(3) on a component running at decimation 2
C7_Witness ==
  /\ running /\ last.op = "setDecimation" /\ last.arg = 3
  /\ _decimation = 2 /\ _reqOutputRate = 24000 /\ decimationCount = 1

\* C8: the last effective setter call alone decides what start derives: the
\* field it sets holds its argument, the other field is cleared, and start
\* succeeds exactly when that argument is positive and divides the input rate,
\* leaving the argument in its field and inputSampleRate / argument in the
\* other.
C8_LastSetterWins ==
  /\ lastSetter[1] = "decimation" =>
       /\ _reqOutputRate = 0
       /\ _decimation = lastSetter[2]
  /\ lastSetter[1] = "rate" => _reqOutputRate = lastSetter[2]
  /\ (lastSetter[1] = "rate" /\ last.op = "setOutputSampleRate" /\ ~running) =>
       _decimation = 0
  /\ (lastSetter[1] # "none" /\ last.op = "start") =>
       last.ok = (lastSetter[2] > 0 /\ inRate % lastSetter[2] = 0)
  /\ (lastSetter[1] = "decimation" /\ running) =>
       _outputSampleRate = inRate \div lastSetter[2]
  /\ (lastSetter[1] = "rate" /\ running) =>
       /\ _outputSampleRate = lastSetter[2]
       /\ _decimation = inRate \div lastSetter[2]

\* setDecimation(3) cleared the output rate that was in force before it
C8_Witness ==
  /\ running /\ lastSetter = <<"decimation", 3>> /\ inRate = 48000
  /\ _decimation = 3 /\ _outputSampleRate = 16000 /\ _reqOutputRate = 0

\* C9 as stated: start succeeds only if a non-zero passband has been set.
C9_StartNeedsPassband == (last.op = "start" /\ last.ok) => _passband # 0

\* C9 amended: start does not look at the passband; it succeeds exactly when
\* the requested rate or decimation divides the input rate, and with the
\* passband still 0 the initial design has cutoff bin 0, an all-zero spectrum.
C9_StartIgnoresPassband ==
  last.op = "start" =>
    /\ last.ok = RequestDivides
    /\ last.ok = running
    /\ (last.ok /\ _passband = 0) => \A n \in Taps : spec[n] = <<0, 0>>

\* a component whose passband was never set, started successfully
C9_Witness ==
  /\ last.op = "start" /\ last.ok /\ running /\ _passband = 0
  /\ spec[0] = <<0, 0>>

\* C10 as stated: every bin below tapCount / 2 whose frequency
\* n * inputSampleRate / tapCount lies below passbandHz has magnitude 1.
C10_BinsBelowPassbandPass ==
  running =>
    \A n \in 0..(FIR_LENGTH \div 2 - 1) :
      (n * inRate) \div FIR_LENGTH < _passband => spec[n] = <<1, 0>>

\* C10 amended: bin n of the low half has magnitude 1 exactly when
\* n < floor(tapCount * passbandHz / inputSampleRate / 2), the product taken
\* modulo 2^32, that is when the whole bin lies at or below passbandHz / 2;
\* with passbandHz = inputSampleRate / 2 exactly the bins below tapCount / 4
\* pass.
C10_BinsBelowHalfPassbandPass ==
  running =>
    /\ \A n \in HalfBins :
         spec[n] = (IF 2 * (n + 1) * inRate
                          <= FIR_LENGTH * (_passband % ((65536 \div FIR_LENGTH) * 65536))
                    THEN <<1, 0>> ELSE <<0, 0>>)
    /\ 2 * _passband = inRate =>
         \A n \in HalfBins : (spec[n] = <<1, 0>>) = (n < FIR_LENGTH \div 4)

\* passband 24000 at 48000: bin 15 passes, bin 16 (12 kHz) does not
C10_Witness ==
  /\ running /\ _passband = 24000 /\ inRate = 48000
  /\ spec[15] = <<1, 0>> /\ spec[16] = <<0, 0>> /\ spec[31] = <<0, 0>>

\* floor(tapCount * passbandHz / inputSampleRate / 2) in exact arithmetic,
\* computed without forming the product
ExactCutoffBin(passbandHz, rate) ==
  (FIR_LENGTH \div 2) * (passbandHz \div rate)
    + ((FIR_LENGTH \div 2) * (passbandHz % rate)) \div rate

\* C11 as stated: for every passband setPassband accepts, the cutoff bin the
\* design uses is floor(tapCount * passbandHz / inputSampleRate / 2) in exact
\* arithmetic, so the low half of the spectrum is 1 exactly below that bin.
C11_CutoffBinExact ==
  running =>
    \A n \in HalfBins :
      spec[n] = (IF n < ExactCutoffBin(_passband, inRate)
                 THEN <<1, 0>> ELSE <<0, 0>>)

\* C12: a setPassband() call on a running component with the passband it
\* already has (same tap count, same input rate) leaves the design spectrum,
\* the transform output and every coefficient exactly as the previous design
\* left them, whatever was processed in between.
C12_RedesignIdempotent ==
  [][(last'.op = "setPassband" /\ "same" \in last'.notes) =>
       /\ spec' = spec
       /\ impulse' = impulse
       /\ coeff' = coeff
       /\ window' = window]_vars

\* passband 6000 set again after frames went through the filter
C12_Witness ==
  /\ running /\ last.op = "setPassband" /\ "same" \in last.notes
  /\ _passband = 6000 /\ inRate = 48000 /\ totalIn > 0
  /\ spec[3] = <<1, 0>> /\ spec[4] = <<0, 0>>

\* C13: every successful start, the first one or one that follows a stop,
\* leaves headpos = 0, decimationCount = 0 and one history buffer per current
\* input channel, each of tapCount zeros; nothing of an earlier run remains in
\* the streaming state.
C13_StartIsFresh ==
  (last.op = "start" /\ last.ok) =>
    /\ running
    /\ headpos = 0
    /\ decimationCount = 0
    /\ DOMAIN fir = 0..(inChannels - 1)
    /\ \A c \in DOMAIN fir :
         /\ DOMAIN fir[c] = 0..(FIR_LENGTH - 1)
         /\ \A i \in DOMAIN fir[c] : fir[c][i] = 0
    /\ totalIn = 0 /\ totalOut = 0 /\ xs = <<>>

\* a start after a stop of a run that left headpos and decimationCount
\* nonzero, now with two channels
C13_Witness ==
  /\ last.op = "start" /\ last.ok /\ {"restart", "stale"} \subseteq last.notes
  /\ inChannels = 2 /\ headpos = 0 /\ fir[1][0] = 0

\* sample i (from 0) of channel c of the input since start, 0 before the start
StreamSample(c, i) == IF i < 0 THEN 0 ELSE xs[i + 1][c]

\* C14: with decimation D, the j-th output frame since start (j >= 1), channel
\* c, is the sum over tap in [0, tapCount) of coeff[tap] * x_c[j * D - 1 - tap],
\* x_c being channel c's input since start and 0 before it, however the input
\* was split into process() calls and however often headpos wrapped.
C14_RingEqualsDirectConvolution ==
  (running /\ last.op = "process") =>
    \A i \in DOMAIN out :
      LET j == totalOut - Len(out) + i
      IN /\ j >= 1
         /\ DOMAIN out[i] = 0..(inChannels - 1)
         /\ \A c \in DOMAIN out[i] :
              /\ DOMAIN out[i][c] = 0..(FIR_LENGTH - 1)
              /\ \A tap \in DOMAIN out[i][c] :
                   out[i][c][tap] =
                     <<coeff[tap], StreamSample(c, j * _decimation - 1 - tap)>>

\* two channels at decimation 3, more than tapCount frames in: headpos has
\* wrapped, and the oldest tap of the newest output frame reads a sample of an
\* earlier call
C14_Witness ==
  /\ running /\ last.op = "process" /\ inChannels = 2 /\ _decimation = 3
  /\ totalIn > FIR_LENGTH /\ headpos < last.frames /\ Len(out) > 0
  /\ out[Len(out)][1][FIR_LENGTH - 1][2] > 0
  /\ out[Len(out)][1][0][2] # out[Len(out)][0][0][2]

\* C15: while running, with T whole frames delivered since the start,
\* headpos = T mod tapCount and decimationCount = T mod decimationFactor at
\* every call boundary; so 0 <= headpos < tapCount,
\* 0 <= decimationCount < decimationFactor, decimationFactor >= 1, and a call
\* moves headpos by its frame count, modulo tapCount, whether or not frames
\* were emitted.
C15_CursorAndCounterFollowFrames ==
  running =>
    /\ _decimation >= 1
    /\ headpos = totalIn % FIR_LENGTH
    /\ decimationCount = totalIn % _decimation
    /\ headpos \in 0..(FIR_LENGTH - 1)
    /\ decimationCount \in 0..(_decimation - 1)
    /\ totalIn = Len(xs)

\* 68 frames at decimation 3: headpos has wrapped to 4 and the counter stands
\* at 2, after a call that ended on a frame that emitted nothing
C15_Witness ==
  /\ running /\ last.op = "process" /\ _decimation = 3
  /\ totalIn = FIR_LENGTH + 4 /\ headpos = 4 /\ decimationCount = 2

\* distance of bin n from bin 0 around the circle of tapCount bins
MirrorDistance(n) == IF n <= FIR_LENGTH - n THEN n ELSE FIR_LENGTH - n

\* C16: while running, whatever the cutoff bin maxbin (0, or above
\* tapCount / 2), every one of the tapCount bins has imaginary part 0 and
\* real part 1 if min(n, tapCount - n) < maxbin and 0 otherwise, and
\* bin n equals bin (tapCount - n) mod tapCount.  m < maxbin is written as
\* 2 * (m + 1) * inputSampleRate <= tapCount * passbandHz mod 2^32.
C16_SpectrumIsSymmetricBoxcar ==
  running =>
    /\ DOMAIN spec = 0..(FIR_LENGTH - 1)
    /\ \A n \in 0..(FIR_LENGTH - 1) :
         /\ spec[n][2] = 0
         /\ spec[n][1] =
              (IF 2 * (MirrorDistance(n) + 1) * inRate
                    <= FIR_LENGTH * (_passband % ((65536 \div FIR_LENGTH) * 65536))
               THEN 1 ELSE 0)
         /\ spec[n] = spec[(FIR_LENGTH - n) % FIR_LENGTH]

\* passband 48000 at input rate 32000 gives cutoff bin 48, above
\* tapCount / 2: every bin is 1, the Nyquist bin included, after a design
\* with cutoff bin 0
C16_Witness ==
  /\ running /\ inRate = 32000 /\ _passband = 48000
  /\ last.op = "setPassband" /\ last.notes = {}
  /\ spec[FIR_LENGTH \div 2] = <<1, 0>> /\ spec[FIR_LENGTH - 1] = <<1, 0>>

\* C17: while running, coeff[n] is the real part of transform output bin
\* (n + tapCount / 2) mod tapCount times window[n], for every n in
\* [0, tapCount); the bins read are in range, each is read exactly once, and
\* bin 0 is read by coefficient tapCount / 2.
C17_CoefficientsRecentred ==
  running =>
    /\ DOMAIN coeff = 0..(FIR_LENGTH - 1)
    /\ DOMAIN impulse = 0..(FIR_LENGTH - 1)
    /\ \A n \in DOMAIN coeff :
         /\ coeff[n].re = impulse[(n + FIR_LENGTH \div 2) % FIR_LENGTH]
         /\ coeff[n].re.bin = (n + FIR_LENGTH \div 2) % FIR_LENGTH
         /\ coeff[n].win = window[n]
    /\ {coeff[n].re.bin : n \in DOMAIN coeff} = 0..(FIR_LENGTH - 1)
    /\ \A m, n \in DOMAIN coeff : coeff[m].re.bin = coeff[n].re.bin => m = n
    /\ coeff[FIR_LENGTH \div 2].re.bin = 0

\* a design for passband 6000: coefficient 0 reads bin tapCount / 2, the
\* last coefficient reads bin tapCount / 2 - 1
C17_Witness ==
  /\ running /\ _passband = 6000 /\ last.op = "setPassband"
  /\ coeff[0].re.bin = FIR_LENGTH \div 2
  /\ coeff[FIR_LENGTH - 1].re.bin = FIR_LENGTH \div 2 - 1
  /\ coeff[FIR_LENGTH \div 2 + 1].re.bin = 1

\* C18: setPassband() on a component that is not running (before a start,
\* after a failed start, after a stop) stores the passband and touches none
\* of the spectrum, transform, window, coefficient or history buffers, which
\* stay unallocated or released; the design made by the next successful start
\* is the one of the stored passband.
C18_RedesignOnlyWhileRunning ==
  [][/\ (~running /\ last'.op = "setPassband") =>
          /\ _passband' = last'.arg
          /\ ~running'
          /\ UNCHANGED <<bufs, spec, impulse, window, coeff, fir>>
     /\ ~running' =>
          /\ bufs' \in {"null", "freed"}
          /\ spec' = Empty /\ impulse' = Empty /\ window' = Empty /\ coeff' = Empty
     /\ (~running /\ running') =>
          /\ _passband' = _passband
          /\ bufs' = "live"
          /\ \A n \in HalfBins :
               spec'[n] = (IF 2 * (n + 1) * inRate
                                <= FIR_LENGTH * (_passband % ((65536 \div FIR_LENGTH) * 65536))
                           THEN <<1, 0>> ELSE <<0, 0>>)]_vars

\* setPassband(6000) on a component that ran, was stopped, and then failed to
\* start
C18_Witness ==
  /\ ~running /\ bufs = "freed" /\ failedBefore
  /\ last.op = "setPassband" /\ last.arg = 6000 /\ _passband = 6000
  /\ spec = Empty /\ coeff = Empty

\* what the caller last asked for: the argument of the last effective
\* setDecimation / setOutputSampleRate call, or the constructor's output rate
RequestedKind == IF lastSetter[1] = "decimation" THEN "decimation" ELSE "rate"
RequestedValue == IF lastSetter[1] = "none" THEN DEFAULT_SAMPLE_RATE ELSE lastSetter[2]

\* C19: a start that fails allocates nothing, designs nothing, leaves the
\* component stopped and keeps what the caller last asked for; a start that
\* follows a failed one succeeds exactly when the requested value is positive
\* and divides the input rate, and then leaves the requested value in its
\* field and inputSampleRate / value in the other, as a start with no failed
\* attempt before it does.
C19_FailedStartLeavesNoTrace ==
  [][/\ (last'.op = "start" /\ ~last'.ok) =>
          /\ ~running'
          /\ UNCHANGED <<bufs, spec, impulse, window, coeff, fir, headpos,
                         decimationCount, _reqOutputRate, _passband, lastSetter>>
          /\ RequestedKind = "decimation" => _decimation' = _decimation
     /\ (last'.op = "start" /\ failedBefore) =>
          /\ last'.ok = (RequestedValue > 0 /\ inRate % RequestedValue = 0)
          /\ last'.ok =>
               /\ running'
               /\ RequestedKind = "decimation" =>
                    /\ _decimation' = RequestedValue
                    /\ _outputSampleRate' = inRate \div RequestedValue
               /\ RequestedKind = "rate" =>
                    /\ _outputSampleRate' = RequestedValue
                    /\ _decimation' = inRate \div RequestedValue]_vars

\* output rate 24000 requested: the start at input rate 32000 failed, leaving
\* decimation 1 behind; the start at input rate 48000 runs at decimation 2
C19_Witness ==
  /\ running /\ last.op = "start" /\ last.ok /\ "afterFail" \in last.notes
  /\ lastSetter = <<"rate", 24000>> /\ inRate = 48000
  /\ _decimation = 2 /\ _outputSampleRate = 24000

\* C20: a process() call on a block of s samples with c channels returns
\* success having consumed floor(s / c) frames: headpos and decimationCount
\* move by that many frames, that many frames of the block's whole-frame
\* prefix enter the history and nothing else does, the frames written are
\* those the prefix alone gives, and the trailing s mod c samples appear
\* nowhere.
C20_WholeFramesOnly ==
  [][(last'.op = "process") =>
       LET s == last'.input
           c == inChannels
           F == Len(s) \div c
           WrittenBy(i) == {f \in 0..(F - 1) : (headpos + f) % FIR_LENGTH = i}
       IN /\ last'.ok
          /\ last'.arg = Len(s)
          /\ last'.frames = F
          /\ headpos' = (headpos + F) % FIR_LENGTH
          /\ decimationCount' = (decimationCount + F) % _decimation
          /\ Len(out') = (decimationCount + F) \div _decimation
          /\ totalIn' = totalIn + F
          /\ Len(xs') = Len(xs) + F
          /\ \A f \in 0..(F - 1) : \A ch \in 0..(c - 1) :
               xs'[Len(xs) + f + 1][ch] = s[f * c + ch + 1]
          /\ \A ch \in 0..(c - 1) : \A i \in 0..(FIR_LENGTH - 1) :
               IF WrittenBy(i) = {} THEN fir'[ch][i] = fir[ch][i]
               ELSE \E f \in WrittenBy(i) :
                      /\ \A g \in WrittenBy(i) : g <= f
                      /\ fir'[ch][i] = s[f * c + ch + 1]
          /\ \A k \in 1..Len(out') : \A ch \in 0..(c - 1) :
               out'[k][ch][0] =
                 <<coeff[0], s[(k * _decimation - decimationCount - 1) * c + ch + 1]>>]_vars

\* three samples on two channels: one frame consumed, the third sample (a 2
\* after two 1s) is in no history buffer
C20_Witness ==
  /\ running /\ last.op = "process" /\ last.ok /\ inChannels = 2
  /\ last.input = <<1, 1, 2>> /\ last.frames = 1 /\ totalIn = 1 /\ headpos = 1
  /\ \A ch \in DOMAIN fir : \A i \in DOMAIN fir[ch] : fir[ch][i] # 2

====
